---- MODULE Spec2Model ----
(***************************************************************************)
(* fonda (src/fonda/src/main.rs): conda-style manifest -> requirements.txt *)
(* resolution and the virtual-environment provisioning pipeline.           *)
(*                                                                         *)
(* Strings are sequences of one-character strings, so that find, trim,     *)
(* split, to_lowercase and contains are computed as the Rust code does.    *)
(***************************************************************************)
EXTENDS Integers, Sequences, FiniteSets, TLC

(***************************************************************************)
(* Bounds of the model.                                                    *)
(***************************************************************************)
MaxDeps == 2
MaxPip == 1
MaxNameLen == 2

(***************************************************************************)
(* Program constants.                                                      *)
(***************************************************************************)
PYTHON_COMMANDS == <<"python", "python3", "py">>
UV_ARGS == "venv"
PROBE_ARGS == "--version"
VENV_ARGS == "-m venv"
PIP_ARGS == "-m pip install -r"

PIP_PREFIX == <<"p", "i", "p", ":">>
WIN_MARKER == <<"[", "w", "i", "n", "]">>
LINUX_MARKER == <<"[", "l", "i", "n", "u", "x", "]">>
OSX_MARKER == <<"[", "o", "s", "x", "]">>
DARWIN_MARKER == <<"[", "d", "a", "r", "w", "i", "n", "]">>

(***************************************************************************)
(* std::env::consts::OS: the three platforms the code tests for, and one   *)
(* it does not.                                                            *)
(***************************************************************************)
OS_VALUES == {"windows", "linux", "macos", "freebsd"}

(***************************************************************************)
(* String primitives of the Rust standard library.                         *)
(***************************************************************************)
UPPER == <<"A", "B", "C", "D", "E", "F", "G", "H", "I", "J", "K", "L", "M",
           "N", "O", "P", "Q", "R", "S", "T", "U", "V", "W", "X", "Y", "Z">>
LOWER == <<"a", "b", "c", "d", "e", "f", "g", "h", "i", "j", "k", "l", "m",
           "n", "o", "p", "q", "r", "s", "t", "u", "v", "w", "x", "y", "z">>
DIGITS == {"0", "1", "2", "3", "4", "5", "6", "7", "8", "9"}
WHITESPACE == {" ", "\t"}

is_ascii_alphanumeric(c) ==
    \/ \E i \in 1..26 : UPPER[i] = c
    \/ \E i \in 1..26 : LOWER[i] = c
    \/ c \in DIGITS

char_to_lowercase(c) ==
    IF \E i \in 1..26 : UPPER[i] = c
    THEN LOWER[CHOOSE i \in 1..26 : UPPER[i] = c]
    ELSE c

to_lowercase(s) == [i \in 1..Len(s) |-> char_to_lowercase(s[i])]

starts_with(s, p) == Len(s) >= Len(p) /\ SubSeq(s, 1, Len(p)) = p

contains(s, p) ==
    \E i \in 0..(Len(s) - Len(p)) : SubSeq(s, i + 1, i + Len(p)) = p

\* str::find(char): index (1-based) of the first occurrence, 0 for None
find(s, c) ==
    IF \E i \in 1..Len(s) : s[i] = c
    THEN CHOOSE i \in 1..Len(s) : s[i] = c /\ \A j \in 1..(i - 1) : s[j] # c
    ELSE 0

RECURSIVE trim_start(_)
trim_start(s) ==
    IF s = <<>> THEN <<>>
    ELSE IF Head(s) \in WHITESPACE THEN trim_start(Tail(s))
    ELSE s

RECURSIVE trim_end(_)
trim_end(s) ==
    IF s = <<>> THEN <<>>
    ELSE IF s[Len(s)] \in WHITESPACE THEN trim_end(SubSeq(s, 1, Len(s) - 1))
    ELSE s

trim(s) == trim_end(trim_start(s))

\* str::split(char): the pieces between occurrences of c, empty pieces kept
RECURSIVE split(_, _)
split(s, c) ==
    LET i == find(s, c)
    IN  IF i = 0 THEN <<s>>
        ELSE <<SubSeq(s, 1, i - 1)>> \o split(SubSeq(s, i + 1, Len(s)), c)

\* Iterator::nth(n).unwrap_or(""): n counts from 0
nth_unwrap_or_empty(pieces, n) ==
    IF Len(pieces) >= n + 1 THEN pieces[n + 1] ELSE <<>>

(***************************************************************************)
(* The lines one manifest entry adds to requirements.txt.  The code has    *)
(* four copies of the loop body (two functions, two sections each); each   *)
(* is translated on its own.  The result is the sequence of lines the      *)
(* writeln! calls of one iteration append; `continue` appends none.        *)
(***************************************************************************)
\* the dependencies loop body with the three checks chained by else-if:
\* the first marker found decides
create_dependencies_entry_FirstMarkerDecides(dep, os) ==
    IF starts_with(dep, PIP_PREFIX)
    THEN LET packages == split(nth_unwrap_or_empty(split(dep, ":"), 1), ",")
         IN  [k \in 1..Len(packages) |-> trim(packages[k])]
    ELSE
        LET comment_idx == find(dep, "#")
        IN  IF comment_idx # 0
            THEN LET package_spec == trim(SubSeq(dep, 1, comment_idx - 1))
                     comment == trim(SubSeq(dep, comment_idx, Len(dep)))
                     comment_lower == to_lowercase(comment)
                     keep == IF package_spec # <<>>
                             THEN <<package_spec>> ELSE <<>>
                 IN  IF contains(comment_lower, WIN_MARKER)
                     THEN (IF os # "windows" THEN <<>> ELSE keep)
                     ELSE IF contains(comment_lower, LINUX_MARKER)
                     THEN (IF os # "linux" THEN <<>> ELSE keep)
                     ELSE IF (\/ contains(comment_lower, OSX_MARKER)
                              \/ contains(comment_lower, DARWIN_MARKER))
                     THEN (IF os # "macos" THEN <<>> ELSE keep)
                     ELSE keep
            ELSE LET package_spec == trim(dep)
                 IN  IF package_spec # <<>> THEN <<package_spec>> ELSE <<>>

\* create_and_run_with_file, body of `for dep in &env.dependencies`
create_dependencies_entry(dep, os) ==
    IF starts_with(dep, PIP_PREFIX)
    THEN LET packages == split(nth_unwrap_or_empty(split(dep, ":"), 1), ",")
         IN  [k \in 1..Len(packages) |-> trim(packages[k])]
    ELSE
        LET comment_idx == find(dep, "#")
        IN  IF comment_idx # 0
            THEN LET package_spec == trim(SubSeq(dep, 1, comment_idx - 1))
                     comment == trim(SubSeq(dep, comment_idx, Len(dep)))
                     comment_lower == to_lowercase(comment)
                 IN  IF contains(comment_lower, WIN_MARKER) /\ os # "windows"
                     THEN <<>>
                     ELSE IF contains(comment_lower, LINUX_MARKER) /\ os # "linux"
                     THEN <<>>
                     ELSE IF (\/ contains(comment_lower, OSX_MARKER)
                              \/ contains(comment_lower, DARWIN_MARKER))
                             /\ os # "macos"
                     THEN <<>>
                     ELSE IF package_spec # <<>> THEN <<package_spec>> ELSE <<>>
            ELSE LET package_spec == trim(dep)
                 IN  IF package_spec # <<>> THEN <<package_spec>> ELSE <<>>

\* the pip-section loop body with the `[darwin]` alternative forgotten
create_pip_entry_NoDarwin(dep, os) ==
    LET comment_idx == find(dep, "#")
    IN  IF comment_idx # 0
        THEN LET package_spec == trim(SubSeq(dep, 1, comment_idx - 1))
                 comment == trim(SubSeq(dep, comment_idx, Len(dep)))
                 comment_lower == to_lowercase(comment)
             IN  IF contains(comment_lower, WIN_MARKER) /\ os # "windows"
                 THEN <<>>
                 ELSE IF contains(comment_lower, LINUX_MARKER) /\ os # "linux"
                 THEN <<>>
                 ELSE IF contains(comment_lower, OSX_MARKER) /\ os # "macos"
                 THEN <<>>
                 ELSE IF package_spec # <<>> THEN <<package_spec>> ELSE <<>>
        ELSE LET package_spec == trim(dep)
             IN  IF package_spec # <<>> THEN <<package_spec>> ELSE <<>>

\* create_and_run_with_file, body of `for dep in pip_deps`
create_pip_entry(dep, os) ==
    LET comment_idx == find(dep, "#")
    IN  IF comment_idx # 0
        THEN LET package_spec == trim(SubSeq(dep, 1, comment_idx - 1))
                 comment == trim(SubSeq(dep, comment_idx, Len(dep)))
                 comment_lower == to_lowercase(comment)
             IN  IF contains(comment_lower, WIN_MARKER) /\ os # "windows"
                 THEN <<>>
                 ELSE IF contains(comment_lower, LINUX_MARKER) /\ os # "linux"
                 THEN <<>>
                 ELSE IF (\/ contains(comment_lower, OSX_MARKER)
                          \/ contains(comment_lower, DARWIN_MARKER))
                         /\ os # "macos"
                 THEN <<>>
                 ELSE IF package_spec # <<>> THEN <<package_spec>> ELSE <<>>
        ELSE LET package_spec == trim(dep)
             IN  IF package_spec # <<>> THEN <<package_spec>> ELSE <<>>

\* write_requirements_from_file, body of `for dep in &env.dependencies`
write_dependencies_entry(dep, os) ==
    IF starts_with(dep, PIP_PREFIX)
    THEN LET packages == split(nth_unwrap_or_empty(split(dep, ":"), 1), ",")
         IN  [k \in 1..Len(packages) |-> trim(packages[k])]
    ELSE
        LET comment_idx == find(dep, "#")
        IN  IF comment_idx # 0
            THEN LET package_spec == trim(SubSeq(dep, 1, comment_idx - 1))
                     comment == trim(SubSeq(dep, comment_idx, Len(dep)))
                     comment_lower == to_lowercase(comment)
                 IN  IF contains(comment_lower, WIN_MARKER) /\ os # "windows"
                     THEN <<>>
                     ELSE IF contains(comment_lower, LINUX_MARKER) /\ os # "linux"
                     THEN <<>>
                     ELSE IF (\/ contains(comment_lower, OSX_MARKER)
                              \/ contains(comment_lower, DARWIN_MARKER))
                             /\ os # "macos"
                     THEN <<>>
                     ELSE IF package_spec # <<>> THEN <<package_spec>> ELSE <<>>
            ELSE LET package_spec == trim(dep)
                 IN  IF package_spec # <<>> THEN <<package_spec>> ELSE <<>>

\* the pip loop body of the -w path expanding a `pip:` group, which the
\* pip loop of the create path does not
write_pip_entry_ExpandsPipGroup(dep, os) ==
    IF starts_with(dep, PIP_PREFIX)
    THEN LET packages == split(nth_unwrap_or_empty(split(dep, ":"), 1), ",")
         IN  [k \in 1..Len(packages) |-> trim(packages[k])]
    ELSE
        LET comment_idx == find(dep, "#")
        IN  IF comment_idx # 0
            THEN LET package_spec == trim(SubSeq(dep, 1, comment_idx - 1))
                     comment == trim(SubSeq(dep, comment_idx, Len(dep)))
                     comment_lower == to_lowercase(comment)
                 IN  IF contains(comment_lower, WIN_MARKER) /\ os # "windows"
                     THEN <<>>
                     ELSE IF contains(comment_lower, LINUX_MARKER) /\ os # "linux"
                     THEN <<>>
                     ELSE IF (\/ contains(comment_lower, OSX_MARKER)
                              \/ contains(comment_lower, DARWIN_MARKER))
                             /\ os # "macos"
                     THEN <<>>
                     ELSE IF package_spec # <<>> THEN <<package_spec>> ELSE <<>>
            ELSE LET package_spec == trim(dep)
                 IN  IF package_spec # <<>> THEN <<package_spec>> ELSE <<>>

\* write_requirements_from_file, body of `for dep in pip_deps`
write_pip_entry(dep, os) ==
    LET comment_idx == find(dep, "#")
    IN  IF comment_idx # 0
        THEN LET package_spec == trim(SubSeq(dep, 1, comment_idx - 1))
                 comment == trim(SubSeq(dep, comment_idx, Len(dep)))
                 comment_lower == to_lowercase(comment)
             IN  IF contains(comment_lower, WIN_MARKER) /\ os # "windows"
                 THEN <<>>
                 ELSE IF contains(comment_lower, LINUX_MARKER) /\ os # "linux"
                 THEN <<>>
                 ELSE IF (\/ contains(comment_lower, OSX_MARKER)
                          \/ contains(comment_lower, DARWIN_MARKER))
                         /\ os # "macos"
                 THEN <<>>
                 ELSE IF package_spec # <<>> THEN <<package_spec>> ELSE <<>>
        ELSE LET package_spec == trim(dep)
             IN  IF package_spec # <<>> THEN <<package_spec>> ELSE <<>>

(***************************************************************************)
(* The two loops of each function: the file content after File::create     *)
(* (empty) and every iteration's writeln! calls, in order.  env.pip is     *)
(* Option<Vec<String>>: [some |-> FALSE] is None.                          *)
(***************************************************************************)
RECURSIVE create_dependencies_loop(_, _)
create_dependencies_loop(deps, os) ==
    IF deps = <<>> THEN <<>>
    ELSE create_dependencies_entry(Head(deps), os)
            \o create_dependencies_loop(Tail(deps), os)

RECURSIVE create_pip_loop(_, _)
create_pip_loop(deps, os) ==
    IF deps = <<>> THEN <<>>
    ELSE create_pip_entry(Head(deps), os) \o create_pip_loop(Tail(deps), os)

\* the two loops in the wrong order: pip section first
create_requirements_lines_PipFirst(manifest, os) ==
    (IF manifest.pip.some THEN create_pip_loop(manifest.pip.items, os) ELSE <<>>)
        \o create_dependencies_loop(manifest.dependencies, os)

create_requirements_lines(manifest, os) ==
    create_dependencies_loop(manifest.dependencies, os)
        \o (IF manifest.pip.some THEN create_pip_loop(manifest.pip.items, os) ELSE <<>>)

RECURSIVE write_dependencies_loop(_, _)
write_dependencies_loop(deps, os) ==
    IF deps = <<>> THEN <<>>
    ELSE write_dependencies_entry(Head(deps), os)
            \o write_dependencies_loop(Tail(deps), os)

RECURSIVE write_pip_loop(_, _)
write_pip_loop(deps, os) ==
    IF deps = <<>> THEN <<>>
    ELSE write_pip_entry(Head(deps), os) \o write_pip_loop(Tail(deps), os)

write_requirements_lines(manifest, os) ==
    write_dependencies_loop(manifest.dependencies, os)
        \o (IF manifest.pip.some THEN write_pip_loop(manifest.pip.items, os) ELSE <<>>)

\* validate_env_name with the hyphen exception forgotten
validate_env_name_NoHyphen(name) ==
    ~ (\/ name = <<>>
       \/ \E i \in 1..Len(name) :
            ~ is_ascii_alphanumeric(name[i]) /\ name[i] # "_")

\* validate_env_name without the character test
validate_env_name_NonEmptyOnly(name) == name # <<>>

\* fn validate_env_name: TRUE for Ok(()), FALSE for Err(CommandFailed)
validate_env_name(name) ==
    ~ (\/ name = <<>>
       \/ \E i \in 1..Len(name) :
            ~ is_ascii_alphanumeric(name[i]) /\ name[i] # "_" /\ name[i] # "-")

(***************************************************************************)
(* Inputs.  A manifest is the CondaEnv the YAML parse yields; entries are  *)
(* the strings of its two lists.                                           *)
(***************************************************************************)
SeqUpTo(S, n) == UNION {[1..k -> S] : k \in 0..n}

E_PLAIN == <<"n", ">", "=", "1">>
E_WIN == <<"w", " ", " ", "#", " ", "[", "w", "i", "n", "]">>
E_LINUX == <<"u", " ", " ", "#", " ", "[", "l", "i", "n", "u", "x", "]">>
E_PIPGROUP == PIP_PREFIX \o <<"f", ",", "r">>
E_BLANK == <<" ">>
SmallEntries == {E_PLAIN, E_WIN, E_LINUX, E_PIPGROUP, E_BLANK}

GIT_SCHEME == <<"g", "i", "t", "+">>
HTTP_SCHEME == <<"h", "t", "t", "p", ":", "/", "/">>
HTTPS_SCHEME == <<"h", "t", "t", "p", "s", ":", "/", "/">>
EDITABLE == <<"-", "e", " ">>

Heads == {<<>>, <<" ">>, PIP_PREFIX, GIT_SCHEME, HTTP_SCHEME, HTTPS_SCHEME,
          EDITABLE}
Bodies == {<<>>, <<"a">>, <<"a", ",", "b">>, <<"a", ",", " ", ",", "b">>,
           <<"u", ":", "v">>}
Tails == {<<>>, <<" ">>, <<"#">>, <<"#", " ", "x">>,
          <<"#", "e", "g", "g", "=", "a">>,
          <<" ", "#", " ">> \o WIN_MARKER,
          <<"#", "[", "W", "I", "N", "]">>,
          <<" ", "#", " ">> \o LINUX_MARKER,
          <<" ", "#">> \o OSX_MARKER,
          <<"#", " ">> \o DARWIN_MARKER \o <<" ">>,
          <<"#", " ">> \o WIN_MARKER \o <<" ">> \o LINUX_MARKER,
          <<"#">> \o OSX_MARKER \o DARWIN_MARKER}
RichEntries == {h \o b \o t : h \in Heads, b \in Bodies, t \in Tails}

NONE == [some |-> FALSE, items |-> <<>>]
Some(items) == [some |-> TRUE, items |-> items]

NAME_OK == <<"m", "y", "_", "e", "n", "v", "-", "1">>
NAME_MIXED == <<"E", "9">>
NAME_EMPTY == <<>>
NAME_SLASH == <<"a", "/", "b">>
NAME_SPACE == <<"e", " ">>
Names == {NAME_OK, NAME_MIXED, NAME_EMPTY, NAME_SLASH, NAME_SPACE}
NameAlphabet == {"a", "Z", "0", "_", "-", "/", " ", ".", "é"}
NameStrings == SeqUpTo(NameAlphabet, MaxNameLen)

STALE == <<<<"o", "l", "d">>>>
PriorRequirements == {[exists |-> FALSE, lines |-> <<>>],
                      [exists |-> TRUE, lines |-> STALE]}

NO_MANIFEST == [name |-> <<>>, dependencies |-> <<>>, pip |-> NONE]

\* the ways the manifest fails to load: no file at the path, File::open
\* fails, the text is not YAML, or a field of CondaEnv without
\* #[serde(default)] (name, dependencies) is absent
MANIFEST_FAILURES ==
    {"missing", "unreadable", "malformed", "no_name", "no_dependencies"}

\* the error the load returns: the explicit ConfigNotFound, or the `?`
\* conversion of the io::Error or the serde_yaml::Error
load_error(file) ==
    IF file = "missing" THEN "ConfigNotFound"
    ELSE IF file = "unreadable" THEN "Io"
    ELSE "Yaml"

PipelineManifests ==
    [name : Names,
     dependencies : {<<E_PLAIN, E_PIPGROUP>>, <<E_WIN, E_LINUX>>},
     pip : {NONE, Some(<<E_WIN>>)}]

ResolveManifests ==
    [name : {NAME_OK},
     dependencies : SeqUpTo(SmallEntries, MaxDeps),
     pip : {NONE} \cup {Some(q) : q \in SeqUpTo(SmallEntries, MaxPip)}]
    \cup [name : {NAME_OK},
          dependencies : {<<e>> : e \in RichEntries},
          pip : {NONE}]
    \cup [name : {NAME_OK},
          dependencies : {<<>>},
          pip : {Some(<<e>>) : e \in RichEntries}]
    \cup [name : NameStrings, dependencies : {<<>>}, pip : {NONE}]

(***************************************************************************)
(* The manifest file.  Its text is kept as the name and, per section, the  *)
(* text of each list item (what follows `- ` on its line).                 *)
(* serde_yaml::from_reader yields the CondaEnv: a double-quoted item is    *)
(* its content, `#` included; a plain item ends where a comment begins,    *)
(* that is at the first `#` preceded by whitespace, and is trimmed.  The   *)
(* items used have no escapes, no `: ` and no flow indicators.             *)
(***************************************************************************)
QUOTE == "\""
Quoted(e) == <<QUOTE>> \o e \o <<QUOTE>>

yaml_comment_start(t) ==
    IF \E k \in 2..Len(t) : t[k] = "#" /\ t[k - 1] \in WHITESPACE
    THEN CHOOSE k \in 2..Len(t) :
            /\ t[k] = "#" /\ t[k - 1] \in WHITESPACE
            /\ \A j \in 2..(k - 1) : ~(t[j] = "#" /\ t[j - 1] \in WHITESPACE)
    ELSE 0

yaml_scalar(item) ==
    LET t == trim(item)
    IN  IF t # <<>> /\ Head(t) = QUOTE
        THEN SubSeq(Tail(t), 1, find(Tail(t), QUOTE) - 1)
        ELSE IF yaml_comment_start(t) # 0
        THEN trim(SubSeq(t, 1, yaml_comment_start(t) - 1))
        ELSE t

serde_yaml_from_reader(text) ==
    [name |-> text.name,
     dependencies |->
        [i \in 1..Len(text.dependencies) |-> yaml_scalar(text.dependencies[i])],
     pip |->
        [some |-> text.pip.some,
         items |-> [i \in 1..Len(text.pip.items) |->
                        yaml_scalar(text.pip.items[i])]]]

\* a manifest file in which every entry is written as a quoted string
QuotedText(manifest) ==
    [name |-> manifest.name,
     dependencies |->
        [i \in 1..Len(manifest.dependencies) |->
            Quoted(manifest.dependencies[i])],
     pip |->
        [some |-> manifest.pip.some,
         items |-> [i \in 1..Len(manifest.pip.items) |->
                        Quoted(manifest.pip.items[i])]]]

\* list items as they are written in manifest files: plain, with and
\* without a trailing comment, with a `#` attached to the text, and quoted
ITEM_ATTACHED == <<"x", "#", "[", "o", "s", "x", "]">>
LoadItems == {E_PLAIN, E_WIN, E_LINUX, E_PIPGROUP, ITEM_ATTACHED,
              Quoted(E_WIN), Quoted(E_LINUX)}
LoadTexts ==
    [name : {NAME_OK},
     dependencies : {<<>>} \cup {<<x>> : x \in LoadItems},
     pip : {NONE, Some(<<>>)} \cup {Some(<<x>>) : x \in LoadItems}]

(***************************************************************************)
(* State.                                                                  *)
(***************************************************************************)
VARIABLES
    command,        \* "create" (create_and_run_with_file) or "write" (-w)
    envFile,        \* the manifest file: "ok" or one of MANIFEST_FAILURES
    manifestText,   \* its text: [name, dependencies, pip] of list items
    prior,          \* requirements.txt as it was before this run
    env,            \* the CondaEnv parsed from it
    OS,             \* std::env::consts::OS
    pathExists,     \* whether an entry exists at PathBuf::from(env.name)
    requirements,   \* requirements.txt: [exists, lines]
    emitted,        \* lines written per entry: [dependencies, pip]
    pc,             \* position in the running function
    existsChecked,  \* venv_path.exists() has been evaluated
    probe_idx,      \* position of get_python_command in PYTHON_COMMANDS
    probe_caller,   \* call site of get_python_command: "fallback"/"install"
    probed,         \* probes of the current get_python_command call
    found,          \* its return value: "" pending, a command, "PythonNotFound"
    python_command, \* interpreter used for `-m venv`
    python_cmd,     \* interpreter used for `-m pip install`
    running,        \* external processes spawned and not yet exited
    output,         \* result of the awaited .output(): [state, code]
    spawned,        \* every process invocation so far: [cmd, args, outcome]
    stages,         \* the stages entered so far, in order
    result          \* "none" while running, "Ok", or the FondaError variant

vars == <<command, envFile, manifestText, prior, env, OS, pathExists, requirements, emitted, pc,
          existsChecked, probe_idx, probe_caller, probed, found,
          python_command, python_cmd, running, output, spawned, stages,
          result>>

inputVars == <<command, envFile, manifestText, prior, env, OS, pathExists>>
procVars == <<running, output, spawned>>
probeVars == <<probe_idx, probe_caller, probed, found>>

NO_OUTPUT == [state |-> "none", code |-> 0]
EXIT_CODES == {0, 1}

InitControl ==
    /\ emitted = [dependencies |-> <<>>, pip |-> <<>>]
    /\ pc = "start"
    /\ existsChecked = FALSE
    /\ probe_idx = 1
    /\ probe_caller = ""
    /\ probed = <<>>
    /\ found = ""
    /\ python_command = ""
    /\ python_cmd = ""
    /\ running = {}
    /\ output = NO_OUTPUT
    /\ spawned = <<>>
    /\ stages = <<>>
    /\ result = "none"

\* requirements.txt as an earlier run on the same manifest left it
LeftByEarlierRun ==
    [exists |-> TRUE, lines |-> write_requirements_lines(env, OS)]

\* the manifest file holds one of the texts; env is what the parse yields
LoadedFrom(texts) ==
    /\ manifestText \in texts
    /\ env = serde_yaml_from_reader(manifestText)

\* Path::new("").exists() is false: the empty name names no entry
Init ==
    /\ command \in {"create", "write"}
    /\ \/ envFile = "ok" /\ LoadedFrom({QuotedText(m) : m \in PipelineManifests})
       \/ /\ envFile \in MANIFEST_FAILURES
          /\ manifestText = QuotedText(NO_MANIFEST)
          /\ env = NO_MANIFEST
    /\ OS \in OS_VALUES
    /\ pathExists \in BOOLEAN
    /\ env.name = <<>> => ~pathExists
    /\ requirements \in PriorRequirements
    /\ prior = requirements
    /\ InitControl

InitResolve ==
    /\ command \in {"create", "write"}
    /\ envFile = "ok"
    /\ LoadedFrom({QuotedText(m) : m \in ResolveManifests})
    /\ OS \in OS_VALUES
    /\ pathExists = (env.name # <<>>)
    /\ requirements \in PriorRequirements \cup {LeftByEarlierRun}
    /\ prior = requirements
    /\ InitControl

InitLoad ==
    /\ command \in {"create", "write"}
    /\ envFile = "ok"
    /\ LoadedFrom(LoadTexts)
    /\ OS \in OS_VALUES
    /\ pathExists = TRUE
    /\ requirements \in PriorRequirements
    /\ prior = requirements
    /\ InitControl

(***************************************************************************)
(* External processes.  TokioCommand::output() either fails to launch      *)
(* (Err) or starts a process that later exits with some status.            *)
(***************************************************************************)
Outcome(code) == IF code = 0 THEN "exit0" ELSE "exit1"

Launch(cmd, args) ==
    \/ /\ running' = running \cup {[cmd |-> cmd, args |-> args]}
       /\ output' = [state |-> "pending", code |-> 0]
       /\ spawned' = Append(spawned,
                        [cmd |-> cmd, args |-> args, outcome |-> "running"])
    \/ /\ running' = running
       /\ output' = [state |-> "err", code |-> 0]
       /\ spawned' = Append(spawned,
                        [cmd |-> cmd, args |-> args, outcome |-> "launch_failed"])

ProcessExit ==
    /\ running # {}
    /\ \E p \in running, code \in EXIT_CODES :
        /\ running' = running \ {p}
        /\ output' = [state |-> "ok", code |-> code]
        /\ spawned' = [spawned EXCEPT ![Len(spawned)].outcome = Outcome(code)]
    /\ UNCHANGED <<inputVars, requirements, emitted, pc, existsChecked,
                   probeVars, python_command, python_cmd, stages, result>>

\* the result read without awaiting the process
Completed_NotAwaited == TRUE

Completed == output.state \in {"ok", "err"}

\* run_command: Ok(output) whenever the process launched, whatever its
\* exit status; Err(CommandFailed) when it did not launch
run_command_is_ok(out) == out.state = "ok"

\* get_python_command accepting any candidate that launched
probe_succeeded_AnyLaunched(out) == out.state = "ok"

\* get_python_command: `if let Ok(output)` and output.status.success()
probe_succeeded(out) == out.state = "ok" /\ out.code = 0

\* the function returns: Ok(()) or Err(FondaError::<variant>)
Return(outcome) == pc' = "done" /\ result' = outcome

\* the lines each iteration of the two loops appended, entry by entry
create_emitted ==
    [dependencies |->
        [i \in 1..Len(env.dependencies) |->
            create_dependencies_entry(env.dependencies[i], OS)],
     pip |->
        IF env.pip.some
        THEN [i \in 1..Len(env.pip.items) |->
                create_pip_entry(env.pip.items[i], OS)]
        ELSE <<>>]

write_emitted ==
    [dependencies |->
        [i \in 1..Len(env.dependencies) |->
            write_dependencies_entry(env.dependencies[i], OS)],
     pip |->
        IF env.pip.some
        THEN [i \in 1..Len(env.pip.items) |->
                write_pip_entry(env.pip.items[i], OS)]
        ELSE <<>>]

(***************************************************************************)
(* write_requirements_from_file (the -w command), one step.                *)
(***************************************************************************)
write_requirements_from_file ==
    /\ command = "write"
    /\ pc = "start"
    /\ stages' = Append(stages, "load")
    /\ IF envFile \in MANIFEST_FAILURES
       THEN Return(load_error(envFile)) /\ UNCHANGED <<requirements, emitted>>
       ELSE /\ requirements' =
                [exists |-> TRUE, lines |-> write_requirements_lines(env, OS)]
            /\ emitted' = write_emitted
            /\ pc' = "done"
            /\ result' = "Ok"
    /\ UNCHANGED <<inputVars, existsChecked, probeVars, python_command,
                   python_cmd, procVars>>

(***************************************************************************)
(* create_and_run_with_file, stage by stage.                               *)
(***************************************************************************)
\* the requirements file created before the manifest is loaded
LoadManifest_CreatesFileFirst ==
    /\ command = "create"
    /\ pc = "start"
    /\ stages' = Append(stages, "load")
    /\ requirements' = [exists |-> TRUE, lines |-> <<>>]
    /\ IF envFile \in MANIFEST_FAILURES
       THEN Return(load_error(envFile))
       ELSE pc' = "write" /\ UNCHANGED result
    /\ UNCHANGED <<inputVars, emitted, existsChecked, probeVars,
                   python_command, python_cmd, procVars>>

LoadManifest ==
    /\ command = "create"
    /\ pc = "start"
    /\ stages' = Append(stages, "load")
    /\ IF envFile \in MANIFEST_FAILURES
       THEN Return(load_error(envFile))
       ELSE pc' = "write" /\ UNCHANGED result
    /\ UNCHANGED <<inputVars, requirements, emitted, existsChecked, probeVars,
                   python_command, python_cmd, procVars>>

\* the file opened for appending instead of File::create
WriteRequirements_Appends ==
    /\ pc = "write"
    /\ stages' = Append(stages, "write")
    /\ requirements' =
        [exists |-> TRUE,
         lines |-> requirements.lines \o create_requirements_lines(env, OS)]
    /\ emitted' = create_emitted
    /\ pc' = "validate"
    /\ UNCHANGED <<inputVars, existsChecked, probeVars, python_command,
                   python_cmd, procVars, result>>

WriteRequirements ==
    /\ pc = "write"
    /\ stages' = Append(stages, "write")
    /\ requirements' =
        [exists |-> TRUE, lines |-> create_requirements_lines(env, OS)]
    /\ emitted' = create_emitted
    /\ pc' = "validate"
    /\ UNCHANGED <<inputVars, existsChecked, probeVars, python_command,
                   python_cmd, procVars, result>>

\* validation going straight on to the creator, the existence check skipped
ValidateName_SkipsExistenceCheck ==
    /\ pc = "validate"
    /\ stages' = Append(stages, "validate")
    /\ IF validate_env_name(env.name)
       THEN pc' = "uv" /\ UNCHANGED result
       ELSE Return("CommandFailed")
    /\ UNCHANGED <<inputVars, requirements, emitted, existsChecked, probeVars,
                   python_command, python_cmd, procVars>>

ValidateName ==
    /\ pc = "validate"
    /\ stages' = Append(stages, "validate")
    /\ IF validate_env_name(env.name)
       THEN pc' = "exists" /\ UNCHANGED result
       ELSE Return("CommandFailed")
    /\ UNCHANGED <<inputVars, requirements, emitted, existsChecked, probeVars,
                   python_command, python_cmd, procVars>>

\* the existence check with its early return left out
CheckExists_NoEarlyReturn ==
    /\ pc = "exists"
    /\ stages' = Append(stages, "exists")
    /\ existsChecked' = TRUE
    /\ pc' = "uv"
    /\ UNCHANGED <<inputVars, requirements, emitted, probeVars,
                   python_command, python_cmd, procVars, result>>

CheckExists ==
    /\ pc = "exists"
    /\ stages' = Append(stages, "exists")
    /\ existsChecked' = TRUE
    /\ IF pathExists
       THEN Return("EnvironmentExists")
       ELSE pc' = "uv" /\ UNCHANGED result
    /\ UNCHANGED <<inputVars, requirements, emitted, probeVars,
                   python_command, python_cmd, procVars>>

\* the call of get_python_command from a call site
CallGetPython(caller) ==
    /\ pc' = "probe"
    /\ probe_caller' = caller
    /\ probe_idx' = 1
    /\ probed' = <<>>
    /\ found' = ""
    /\ stages' = Append(stages, caller \o "_discovery")

\* sanitize_path cannot fail here: the path is built from a String
UvSpawn ==
    /\ pc = "uv"
    /\ stages' = Append(stages, "uv")
    /\ Launch("uv", UV_ARGS)
    /\ pc' = "uv_await"
    /\ UNCHANGED <<inputVars, requirements, emitted, existsChecked, probeVars,
                   python_command, python_cmd, result>>

\* a failed preferred creator run once more before the fallback
UvResult_RetriesOnce ==
    /\ pc = "uv_await"
    /\ Completed
    /\ IF run_command_is_ok(output)
       THEN CallGetPython("install")
       ELSE IF Len(spawned) < 2
       THEN pc' = "uv" /\ UNCHANGED <<probeVars, stages>>
       ELSE CallGetPython("fallback")
    /\ output' = NO_OUTPUT
    /\ UNCHANGED <<inputVars, requirements, emitted, existsChecked,
                   python_command, python_cmd, running, spawned, result>>

UvResult ==
    /\ pc = "uv_await"
    /\ Completed
    /\ IF run_command_is_ok(output)
       THEN CallGetPython("install")
       ELSE CallGetPython("fallback")
    /\ output' = NO_OUTPUT
    /\ UNCHANGED <<inputVars, requirements, emitted, existsChecked,
                   python_command, python_cmd, running, spawned, result>>

ProbeSpawn ==
    /\ pc = "probe"
    /\ Launch(PYTHON_COMMANDS[probe_idx], PROBE_ARGS)
    /\ pc' = "probe_await"
    /\ UNCHANGED <<inputVars, requirements, emitted, existsChecked, probeVars,
                   python_command, python_cmd, stages, result>>

ProbeResult ==
    /\ pc = "probe_await"
    /\ Completed
    /\ probed' = Append(probed, spawned[Len(spawned)])
    /\ output' = NO_OUTPUT
    /\ IF probe_succeeded(output)
       THEN /\ found' = PYTHON_COMMANDS[probe_idx]
            /\ IF probe_caller = "fallback"
               THEN /\ python_command' = PYTHON_COMMANDS[probe_idx]
                    /\ pc' = "venv"
                    /\ UNCHANGED python_cmd
               ELSE /\ python_cmd' = PYTHON_COMMANDS[probe_idx]
                    /\ pc' = "pip"
                    /\ UNCHANGED python_command
            /\ UNCHANGED <<probe_idx, result>>
       ELSE IF probe_idx < Len(PYTHON_COMMANDS)
       THEN /\ probe_idx' = probe_idx + 1
            /\ pc' = "probe"
            /\ UNCHANGED <<found, python_command, python_cmd, result>>
       ELSE /\ found' = "PythonNotFound"
            /\ Return("PythonNotFound")
            /\ UNCHANGED <<probe_idx, python_command, python_cmd>>
    /\ UNCHANGED <<inputVars, requirements, emitted, existsChecked,
                   probe_caller, running, spawned, stages>>

VenvSpawn ==
    /\ pc = "venv"
    /\ stages' = Append(stages, "venv")
    /\ Launch(python_command, VENV_ARGS)
    /\ pc' = "venv_await"
    /\ UNCHANGED <<inputVars, requirements, emitted, existsChecked, probeVars,
                   python_command, python_cmd, result>>

\* the interpreter found for `-m venv` reused for the installation
VenvResult_ReusesInterpreter ==
    /\ pc = "venv_await"
    /\ Completed
    /\ output' = NO_OUTPUT
    /\ IF run_command_is_ok(output)
       THEN /\ python_cmd' = python_command
            /\ pc' = "pip"
            /\ UNCHANGED result
       ELSE /\ Return("VenvCreationFailed")
            /\ UNCHANGED python_cmd
    /\ UNCHANGED <<inputVars, requirements, emitted, existsChecked, probeVars,
                   stages, python_command, running, spawned>>

VenvResult ==
    /\ pc = "venv_await"
    /\ Completed
    /\ output' = NO_OUTPUT
    /\ IF run_command_is_ok(output)
       THEN CallGetPython("install") /\ UNCHANGED result
       ELSE /\ Return("VenvCreationFailed")
            /\ UNCHANGED <<probeVars, stages>>
    /\ UNCHANGED <<inputVars, requirements, emitted, existsChecked,
                   python_command, python_cmd, running, spawned>>

PipSpawn ==
    /\ pc = "pip"
    /\ stages' = Append(stages, "pip")
    /\ Launch(python_cmd, PIP_ARGS)
    /\ pc' = "pip_await"
    /\ UNCHANGED <<inputVars, requirements, emitted, existsChecked, probeVars,
                   python_command, python_cmd, result>>

PipResult ==
    /\ pc = "pip_await"
    /\ Completed
    /\ output' = NO_OUTPUT
    /\ IF run_command_is_ok(output)
       THEN Return("Ok")
       ELSE Return("CommandFailed")
    /\ UNCHANGED <<inputVars, requirements, emitted, existsChecked, probeVars,
                   python_command, python_cmd, running, spawned, stages>>

Next ==
    \/ write_requirements_from_file
    \/ LoadManifest
    \/ WriteRequirements
    \/ ValidateName
    \/ CheckExists
    \/ UvSpawn
    \/ UvResult
    \/ ProbeSpawn
    \/ ProbeResult
    \/ VenvSpawn
    \/ VenvResult
    \/ PipSpawn
    \/ PipResult
    \/ ProcessExit

Spec == Init /\ [][Next]_vars

\* The steps of the function itself.  main runs it as the one task of the
\* tokio runtime (#[tokio::main]), which polls it whenever it can proceed:
\* a step that stays possible is taken.  An external process that has
\* started exits eventually.
FunctionStep ==
    \/ write_requirements_from_file
    \/ LoadManifest
    \/ WriteRequirements
    \/ ValidateName
    \/ CheckExists
    \/ UvSpawn
    \/ UvResult
    \/ ProbeSpawn
    \/ ProbeResult
    \/ VenvSpawn
    \/ VenvResult
    \/ PipSpawn
    \/ PipResult

\* the pipeline's control flow depends on the manifest only through the
\* load result, the name's validity and the path's existence
LiveManifests ==
    [name : {NAME_OK, NAME_SLASH},
     dependencies : {<<E_PLAIN, E_PIPGROUP>>},
     pip : {NONE, Some(<<E_WIN>>)}]

InitLive ==
    /\ command \in {"create", "write"}
    /\ \/ envFile = "ok" /\ LoadedFrom({QuotedText(m) : m \in LiveManifests})
       \/ /\ envFile \in MANIFEST_FAILURES
          /\ manifestText = QuotedText(NO_MANIFEST)
          /\ env = NO_MANIFEST
    /\ OS \in {"windows", "linux"}
    /\ pathExists \in BOOLEAN
    /\ requirements \in PriorRequirements
    /\ prior = requirements
    /\ InitControl

SpecLive ==
    /\ InitLive /\ [][Next]_vars
    /\ WF_vars(FunctionStep)
    /\ WF_vars(ProcessExit)

NextResolve ==
    \/ write_requirements_from_file
    \/ LoadManifest
    \/ WriteRequirements
    \/ ValidateName
    \/ CheckExists

SpecResolve == InitResolve /\ [][NextResolve]_vars

NextLoad ==
    \/ write_requirements_from_file
    \/ LoadManifest
    \/ WriteRequirements
    \/ ValidateName
    \/ CheckExists

SpecLoad == InitLoad /\ [][NextLoad]_vars

(***************************************************************************)
(* Vocabulary of the claims.                                               *)
(***************************************************************************)
Invocations(args) == {i \in 1..Len(spawned) : spawned[i].args = args}
Failed(i) == spawned[i].outcome \in {"launch_failed", "exit1"}
Terminated == pc = "done"
FatalError == result \notin {"none", "Ok"}
Creating == command = "create" /\ envFile = "ok"

\* ^[A-Za-z0-9_-]+$
NameChars ==
    {UPPER[i] : i \in 1..26} \cup {LOWER[i] : i \in 1..26} \cup DIGITS
        \cup {"_", "-"}
MatchesNamePattern(name) ==
    name # <<>> /\ \A i \in 1..Len(name) : name[i] \in NameChars

(***************************************************************************)
(* C1: when the `-m pip install -r` invocation fails to launch or exits    *)
(* non-zero the run ends in a fatal error, and the run ends Ok only when   *)
(* the installer exited with code 0.                                       *)
(***************************************************************************)
C1_InstallFailureIsFatal ==
    (Creating /\ Terminated) =>
        /\ (\E i \in Invocations(PIP_ARGS) : Failed(i)) => FatalError
        /\ result = "Ok" =>
            \E i \in Invocations(PIP_ARGS) : spawned[i].outcome = "exit0"

(***************************************************************************)
(* C2: when `uv venv` fails to launch or exits non-zero the fallback path  *)
(* (interpreter discovery, then `-m venv`) is taken; uv's result counts as *)
(* "environment created" only when it exited with success.                 *)
(***************************************************************************)
C2_FallbackOnAnyUvFailure ==
    (Creating /\ Len(spawned) >= 2) =>
        /\ Failed(1) =>
            /\ stages[6] = "fallback_discovery"
            /\ \A i \in Invocations(VENV_ARGS) : spawned[i].cmd = python_command
        /\ stages[6] = "install_discovery" => spawned[1].outcome = "exit0"

(***************************************************************************)
(* C3: on the fallback path, discovery finding no candidate ends the run   *)
(* with the interpreter-not-found error, a `-m venv` invocation that fails *)
(* to launch or exits non-zero ends it with the creation-failed error, and *)
(* in both cases no installer process is spawned.                          *)
(***************************************************************************)
C3_FallbackFailuresAreFatal ==
    Creating =>
        /\ (probe_caller = "fallback" /\ found = "PythonNotFound") =>
            /\ Terminated /\ result = "PythonNotFound"
            /\ Invocations(PIP_ARGS) = {}
        /\ \A i \in Invocations(VENV_ARGS) :
            (Failed(i) /\ pc # "venv_await") =>
                /\ Terminated /\ result = "VenvCreationFailed"
                /\ Invocations(PIP_ARGS) = {}

(***************************************************************************)
(* C4 as claimed: whenever an entry exists at the target path, the run     *)
(* ends with EnvironmentExists and spawns no process.                      *)
(***************************************************************************)
C4_ExistsAlwaysEnvironmentExists ==
    (Creating /\ pathExists /\ Terminated) =>
        /\ result = "EnvironmentExists"
        /\ spawned = <<>>

(***************************************************************************)
(* C4 amended: when the name passes validation and an entry exists at the  *)
(* target path, no process is ever spawned and the run ends with           *)
(* EnvironmentExists, the requirements file holding the lines written from *)
(* the manifest.                                                           *)
(***************************************************************************)
C4_ValidNameExistsEnvironmentExists ==
    (Creating /\ MatchesNamePattern(env.name) /\ pathExists) =>
        /\ spawned = <<>>
        /\ running = {}
        /\ Terminated =>
            /\ result = "EnvironmentExists"
            /\ requirements.exists
            /\ requirements.lines = create_requirements_lines(env, OS)

C4_Witness ==
    /\ Creating /\ pathExists /\ Terminated
    /\ result = "EnvironmentExists"
    /\ existsChecked
    /\ requirements.lines = <<E_PLAIN, <<"f">>, <<"r">>>>

(***************************************************************************)
(* C5: when the manifest's name fails validation the run ends in a fatal   *)
(* error, and neither the existence check of the target path nor any       *)
(* process invocation has happened.                                        *)
(***************************************************************************)
C5_NameValidatedFirst ==
    (Creating /\ ~MatchesNamePattern(env.name)) =>
        /\ ~existsChecked
        /\ spawned = <<>>
        /\ running = {}
        /\ Terminated => FatalError

C5_Witness ==
    /\ Creating /\ env.name = NAME_SLASH /\ pathExists
    /\ Terminated /\ result = "CommandFailed"
    /\ stages = <<"load", "write", "validate">>

(***************************************************************************)
(* C6: a `uv venv` launch failure followed by a successful fallback and a  *)
(* successful installation ends in success, and the preferred creator is   *)
(* the only stage whose failure (launch failure or non-zero exit) the      *)
(* pipeline continues after.                                               *)
(***************************************************************************)
C6_OnlyUvFailureAbsorbed ==
    Creating =>
        /\ ( /\ Terminated
             /\ Len(spawned) >= 1 /\ spawned[1].outcome = "launch_failed"
             /\ \E i \in Invocations(VENV_ARGS) : spawned[i].outcome = "exit0"
             /\ \E i \in Invocations(PIP_ARGS) : spawned[i].outcome = "exit0" )
           => result = "Ok"
        /\ \A i \in Invocations(VENV_ARGS) \cup Invocations(PIP_ARGS) :
            Failed(i) => i = Len(spawned) /\ result # "Ok"

(***************************************************************************)
(* C7: get_python_command probes python, python3, py in this order, stops  *)
(* at the first candidate that launches and exits with success and returns *)
(* it, skips a candidate that fails to launch or exits non-zero, and       *)
(* returns the not-found error exactly when all three failed.              *)
(***************************************************************************)
C7_FirstSuccessfulCandidate ==
    LET n == Len(probed)
        ok(i) == probed[i].outcome = "exit0"
    IN  /\ n <= Len(PYTHON_COMMANDS)
        /\ \A i \in 1..n :
            probed[i].cmd = PYTHON_COMMANDS[i] /\ probed[i].args = PROBE_ARGS
        /\ \A i \in 1..(n - 1) : ~ok(i)
        /\ (n >= 1 /\ pc # "probe_await") =>
            /\ ok(n) <=> found = PYTHON_COMMANDS[n]
            /\ (n = Len(PYTHON_COMMANDS) /\ ~ok(n)) <=> found = "PythonNotFound"
            /\ found = "" <=> (n < Len(PYTHON_COMMANDS) /\ ~ok(n))
        /\ n = 0 => found = ""

C7_Witness ==
    /\ found = "py"
    /\ Len(probed) = 3
    /\ probed[1].outcome = "launch_failed"
    /\ probed[2].outcome = "exit1"
    /\ python_cmd = "py"

(***************************************************************************)
(* Vocabulary of the resolution claims.  An entry is addressed by its      *)
(* section and position; Resolved holds once this run has written the      *)
(* requirements file.                                                      *)
(***************************************************************************)
Resolved == envFile = "ok" /\ pc \notin {"start", "write"}
Positions ==
    {<<"dependencies", i>> : i \in 1..Len(env.dependencies)}
        \cup {<<"pip", i>> : i \in 1..Len(env.pip.items)}
EntryAt(pos) ==
    IF pos[1] = "dependencies" THEN env.dependencies[pos[2]]
    ELSE env.pip.items[pos[2]]
EmittedAt(pos) ==
    IF pos[1] = "dependencies" THEN emitted.dependencies[pos[2]]
    ELSE emitted.pip[pos[2]]

SpecPart(e) == trim(SubSeq(e, 1, find(e, "#") - 1))
CommentPart(e) == to_lowercase(SubSeq(e, find(e, "#"), Len(e)))
MarkersOf(platform) ==
    IF platform = "windows" THEN {WIN_MARKER}
    ELSE IF platform = "linux" THEN {LINUX_MARKER}
    ELSE {OSX_MARKER, DARWIN_MARKER}
NamedPlatforms(e) ==
    {p \in {"windows", "linux", "macos"} :
        \E m \in MarkersOf(p) : contains(CommentPart(e), m)}
Conditioned(e) ==
    ~starts_with(e, PIP_PREFIX) /\ find(e, "#") # 0 /\ SpecPart(e) # <<>>

(***************************************************************************)
(* C8 as claimed: an entry with a `#` comment carrying a recognized marker *)
(* and a non-empty part before `#` is emitted (as that trimmed part) if    *)
(* and only if the current platform is one a marker names; with no marker  *)
(* it is always emitted.                                                   *)
(***************************************************************************)
C8_EmittedIffPlatformNamed ==
    (command = "create" /\ Resolved) =>
        \A pos \in Positions :
            LET e == EntryAt(pos)
            IN  Conditioned(e) =>
                    /\ EmittedAt(pos) \in {<<>>, <<SpecPart(e)>>}
                    /\ IF NamedPlatforms(e) = {}
                       THEN EmittedAt(pos) = <<SpecPart(e)>>
                       ELSE EmittedAt(pos) = <<SpecPart(e)>>
                                <=> OS \in NamedPlatforms(e)

(***************************************************************************)
(* C8 amended: such an entry is emitted (as its trimmed part before `#`)   *)
(* if and only if every platform its markers name is the current platform; *)
(* with no recognized marker it is always emitted.  Both sections.         *)
(***************************************************************************)
C8_EmittedIffEveryMarkerMatches ==
    (command = "create" /\ Resolved) =>
        \A pos \in Positions :
            LET e == EntryAt(pos)
            IN  Conditioned(e) =>
                    /\ EmittedAt(pos) \in {<<>>, <<SpecPart(e)>>}
                    /\ EmittedAt(pos) = <<SpecPart(e)>>
                            <=> NamedPlatforms(e) \subseteq {OS}

C8_Witness ==
    /\ command = "create" /\ Resolved
    /\ OS = "windows"
    /\ env.dependencies = <<E_WIN, E_LINUX>>
    /\ env.pip = Some(<<E_WIN>>)
    /\ emitted = [dependencies |-> << <<<<"w">>>>, <<>> >>,
                  pip |-> << <<<<"w">>>> >>]

(***************************************************************************)
(* C9: a dependencies entry starting with `pip:` emits exactly, in order,  *)
(* the non-empty trimmed pieces of the whole remainder after `pip:` split  *)
(* on `,`; no empty specifier, and a piece containing `:` is emitted whole.*)
(***************************************************************************)
NonEmptyPiece(piece) == piece # <<>>
PipGroupPieces(e) ==
    LET pieces == split(SubSeq(e, Len(PIP_PREFIX) + 1, Len(e)), ",")
    IN  SelectSeq([k \in 1..Len(pieces) |-> trim(pieces[k])], NonEmptyPiece)

C9_PipGroupPieces ==
    (command = "create" /\ Resolved) =>
        \A i \in 1..Len(env.dependencies) :
            starts_with(env.dependencies[i], PIP_PREFIX) =>
                emitted.dependencies[i] = PipGroupPieces(env.dependencies[i])

(***************************************************************************)
(* C10: an entry that is a specifier beginning with `git+`, `http://`,     *)
(* `https://` or `-e ` (no surrounding whitespace, no whitespace before a  *)
(* `#`) is emitted unchanged as one line, also when it contains a `#`.     *)
(***************************************************************************)
HasScheme(e) ==
    \E scheme \in {GIT_SCHEME, HTTP_SCHEME, HTTPS_SCHEME, EDITABLE} :
        starts_with(e, scheme)
BareSpecifier(e) ==
    /\ e = trim(e)
    /\ \A k \in 2..Len(e) : e[k] = "#" => e[k - 1] \notin WHITESPACE

C10_SchemeSpecifierVerbatim ==
    Resolved =>
        \A pos \in Positions :
            LET e == EntryAt(pos)
            IN  (HasScheme(e) /\ BareSpecifier(e)) => EmittedAt(pos) = <<e>>

(***************************************************************************)
(* C11: the requirements file is the concatenation, in manifest order, of  *)
(* each dependencies entry's own output followed by each pip entry's own   *)
(* output: nothing is reordered and nothing is deduplicated.               *)
(***************************************************************************)
RECURSIVE Flatten(_)
Flatten(seqs) ==
    IF seqs = <<>> THEN <<>> ELSE Head(seqs) \o Flatten(Tail(seqs))

C11_ManifestOrderKept ==
    Resolved =>
        requirements.lines
            = Flatten(emitted.dependencies) \o Flatten(emitted.pip)

C11_Witness ==
    /\ command = "create" /\ Resolved
    /\ env.dependencies = <<E_PIPGROUP, E_PLAIN>>
    /\ env.pip = Some(<<E_PLAIN>>)
    /\ requirements.lines = << <<"f">>, <<"r">>, E_PLAIN, E_PLAIN >>

(***************************************************************************)
(* C12: validate_env_name accepts a name if and only if it is non-empty    *)
(* and every character is an ASCII letter, an ASCII digit, `_` or `-`;     *)
(* it accepts `my_env-1`.                                                  *)
(***************************************************************************)
NameValidated == Creating /\ pc \notin {"start", "write", "validate"}
NameRejected ==
    /\ Terminated
    /\ result = "CommandFailed"
    /\ stages = <<"load", "write", "validate">>

C12_NamePattern ==
    NameValidated =>
        /\ NameRejected <=> ~MatchesNamePattern(env.name)
        /\ env.name = NAME_OK => ~NameRejected

C12_Witness ==
    /\ NameValidated
    /\ env.name = NAME_OK
    /\ existsChecked
    /\ result = "EnvironmentExists"

(***************************************************************************)
(* C13: the preferred creator, the fallback creator and the installer are  *)
(* each invoked at most once, and once a stage other than the preferred    *)
(* creator has failed (launch failure or non-zero exit, or a discovery     *)
(* that found nothing) the run is over with a fatal error: no later stage  *)
(* runs and no further process is spawned.                                 *)
(***************************************************************************)
C13_NoRetryFailureTerminal ==
    Creating =>
        /\ \A args \in {UV_ARGS, VENV_ARGS, PIP_ARGS} :
            Cardinality(Invocations(args)) <= 1
        /\ found = "PythonNotFound" => Terminated /\ FatalError
        /\ \A i \in Invocations(VENV_ARGS) \cup Invocations(PIP_ARGS) :
            (Failed(i) /\ pc \notin {"venv_await", "pip_await"}) =>
                /\ Terminated /\ FatalError
                /\ i = Len(spawned)
                /\ stages[Len(stages)] \in {"venv", "pip"}

(***************************************************************************)
(* C14: at every point at most one external process is running, and each   *)
(* spawned process has exited and its result has been inspected before     *)
(* the next stage begins.                                                  *)
(***************************************************************************)
AwaitPoints == {"uv_await", "probe_await", "venv_await", "pip_await"}

ItemAt(pos) ==
    IF pos[1] = "dependencies" THEN manifestText.dependencies[pos[2]]
    ELSE manifestText.pip.items[pos[2]]
HasTrailingComment(item) ==
    Head(item) # QUOTE /\ yaml_comment_start(item) # 0

C15_TrailingCommentConditionsEntry ==
    Resolved =>
        \A pos \in Positions :
            LET item == ItemAt(pos)
            IN  (/\ HasTrailingComment(item)
                 /\ NamedPlatforms(item) # {}
                 /\ OS \notin NamedPlatforms(item))
                    => EmittedAt(pos) = <<>>

(***************************************************************************)
(* C16: after a write the requirements file holds exactly the lines        *)
(* resolved from the manifest on this platform, whatever it held before:   *)
(* nothing of the prior content is left, and a second run on the same      *)
(* manifest leaves the content of the first.                               *)
(***************************************************************************)
ResolvedLines ==
    IF command = "create" THEN create_requirements_lines(env, OS)
    ELSE write_requirements_lines(env, OS)

C16_WriteTruncates ==
    Resolved =>
        /\ requirements = [exists |-> TRUE, lines |-> ResolvedLines]
        /\ prior = LeftByEarlierRun => requirements = prior

C16_Witness ==
    /\ Resolved
    /\ prior = [exists |-> TRUE, lines |-> STALE]
    /\ env.dependencies = <<E_PLAIN, E_WIN>>
    /\ OS = "linux"
    /\ requirements = [exists |-> TRUE, lines |-> <<E_PLAIN>>]

(***************************************************************************)
(* C17: the stages of create_and_run_with_file are entered only in the     *)
(* order load, requirements written, name validation, absence check,       *)
(* creation (preferred, then fallback discovery and fallback creator),     *)
(* install discovery, installation; none is entered before the earlier     *)
(* ones, and success is reached only at the end of that sequence.          *)
(***************************************************************************)
PreferredPath ==
    <<"load", "write", "validate", "exists", "uv", "install_discovery", "pip">>
FallbackPath ==
    <<"load", "write", "validate", "exists", "uv", "fallback_discovery",
      "venv", "install_discovery", "pip">>
IsPrefix(s, t) == Len(s) <= Len(t) /\ SubSeq(t, 1, Len(s)) = s

C17_FixedStageOrder ==
    command = "create" =>
        /\ IsPrefix(stages, PreferredPath) \/ IsPrefix(stages, FallbackPath)
        /\ result = "Ok" => stages \in {PreferredPath, FallbackPath}
        /\ requirements # prior => IsPrefix(<<"load", "write">>, stages)
        /\ existsChecked => IsPrefix(<<"load", "write", "validate", "exists">>, stages)
        /\ spawned # <<>> =>
            IsPrefix(<<"load", "write", "validate", "exists", "uv">>, stages)

C17_Witness ==
    /\ command = "create"
    /\ result = "Ok"
    /\ stages = FallbackPath

(***************************************************************************)
(* C18: the installer is always preceded by a discovery of its own, run    *)
(* after the environment was created on either path: it is invoked with    *)
(* the first candidate that succeeded in that discovery (not necessarily   *)
(* the interpreter of the fallback creation), and when that discovery      *)
(* finds none the run fails with PythonNotFound and no installer runs.     *)
(***************************************************************************)
CreatorIndexes == Invocations(UV_ARGS) \cup Invocations(VENV_ARGS)
LastCreator == CHOOSE c \in CreatorIndexes : \A d \in CreatorIndexes : d <= c

C18_FreshDiscoveryForInstall ==
    Creating =>
        /\ \A i \in Invocations(PIP_ARGS) :
            /\ i - LastCreator \in 2..(Len(PYTHON_COMMANDS) + 1)
            /\ \A j \in (LastCreator + 1)..(i - 1) :
                /\ spawned[j].args = PROBE_ARGS
                /\ spawned[j].cmd = PYTHON_COMMANDS[j - LastCreator]
                /\ spawned[j].outcome = "exit0" <=> j = i - 1
            /\ spawned[i].cmd = spawned[i - 1].cmd
            /\ spawned[i].cmd = python_cmd
        /\ (probe_caller = "install" /\ found = "PythonNotFound") =>
            /\ Terminated /\ result = "PythonNotFound"
            /\ Invocations(PIP_ARGS) = {}

C18_Witness ==
    /\ Creating
    /\ python_command = "python"
    /\ python_cmd = "py"
    /\ Invocations(PIP_ARGS) = {7}
    /\ Invocations(VENV_ARGS) = {3}

(***************************************************************************)
(* C19: the marker checks are independent and one mismatch excludes: an    *)
(* entry whose comment names two or more different platforms is written    *)
(* on no platform, the platforms it names included.                        *)
(***************************************************************************)
Filtered(pos) ==
    /\ find(EntryAt(pos), "#") # 0
    /\ ~(pos[1] = "dependencies" /\ starts_with(EntryAt(pos), PIP_PREFIX))
MIXED_MARKERS == <<"a", "#", " ">> \o WIN_MARKER \o <<" ">> \o LINUX_MARKER

C19_MixedMarkersExcluded ==
    Resolved =>
        \A pos \in Positions :
            (Filtered(pos) /\ Cardinality(NamedPlatforms(EntryAt(pos))) >= 2)
                => EmittedAt(pos) = <<>>

C19_Witness ==
    /\ command = "create" /\ Resolved
    /\ OS = "windows"
    /\ env.dependencies = <<MIXED_MARKERS>>
    /\ NamedPlatforms(MIXED_MARKERS) = {"windows", "linux"}
    /\ emitted.dependencies = << <<>> >>
    /\ requirements.lines = <<>>

(***************************************************************************)
(* C20: no empty specifier is ever written: every line of the requirements *)
(* file is a non-empty string without leading or trailing whitespace.      *)
(***************************************************************************)
C20_NoEmptyLine ==
    Resolved =>
        \A k \in 1..Len(requirements.lines) :
            /\ requirements.lines[k] # <<>>
            /\ trim(requirements.lines[k]) = requirements.lines[k]

(***************************************************************************)
(* C21: when the manifest is missing, unreadable or structurally invalid   *)
(* (a missing `name` or `dependencies` field included), both functions     *)
(* fail before the requirements file is created or truncated and before    *)
(* any external process is spawned: the file keeps its prior content.      *)
(***************************************************************************)
ManifestFails == envFile \in MANIFEST_FAILURES

C21_LoadFailureTouchesNothing ==
    ManifestFails =>
        /\ requirements = prior
        /\ spawned = <<>> /\ running = {}
        /\ pc \in {"start", "done"}
        /\ Terminated => (FatalError /\ result = load_error(envFile)
                          /\ stages = <<"load">>)

C21_Witness ==
    /\ command = "create"
    /\ envFile = "no_dependencies"
    /\ Terminated /\ result = "Yaml"
    /\ prior = [exists |-> TRUE, lines |-> STALE]
    /\ requirements = prior
    /\ spawned = <<>>

(***************************************************************************)
(* C22: the two resolution code paths agree: for every manifest and every  *)
(* platform, what write_requirements_from_file writes to the requirements  *)
(* file equals what create_and_run_with_file writes for the same manifest. *)
(* Whichever function ran, the file holds the lines either would write,    *)
(* and each entry contributed the lines it contributes in the other.       *)
(***************************************************************************)
C22_ResolutionPathsAgree ==
    Resolved =>
        /\ requirements.lines = write_requirements_lines(env, OS)
        /\ requirements.lines = create_requirements_lines(env, OS)
        /\ emitted = write_emitted
        /\ emitted = create_emitted

C22_Witness ==
    /\ command = "write" /\ Resolved
    /\ OS = "linux"
    /\ env.dependencies = <<E_WIN, E_PIPGROUP>>
    /\ env.pip = Some(<<E_LINUX>>)
    /\ requirements.lines = <<<<"f">>, <<"r">>, <<"u">>>>
    /\ requirements.lines = create_requirements_lines(env, OS)

(***************************************************************************)
(* C23: if every spawned external process eventually terminates, every     *)
(* invocation of create_and_run_with_file eventually reaches exactly one   *)
(* terminal outcome, Ok or a fatal error, after spawning at most 9         *)
(* processes: the preferred creator, at most 3 probes and the fallback     *)
(* creator, at most 3 probes and the installer.                            *)
(***************************************************************************)
MAX_SPAWNS == 1 + (Len(PYTHON_COMMANDS) + 1) + (Len(PYTHON_COMMANDS) + 1)
Outcomes == {"Ok", "ConfigNotFound", "Io", "Yaml", "CommandFailed",
             "EnvironmentExists", "PythonNotFound", "VenvCreationFailed"}
Finished == Terminated /\ result \in Outcomes /\ running = {}

C23_TerminatesWithinNineSpawns ==
    /\ [](command = "create" =>
            /\ Len(spawned) <= MAX_SPAWNS
            /\ Cardinality(Invocations(UV_ARGS)) <= 1
            /\ Cardinality(Invocations(VENV_ARGS)) <= 1
            /\ Cardinality(Invocations(PIP_ARGS)) <= 1
            /\ Cardinality(Invocations(PROBE_ARGS)) <= 2 * Len(PYTHON_COMMANDS)
            /\ (Terminated <=> result # "none"))
    /\ (command = "create") ~> Finished
    /\ [][(command = "create" /\ Terminated) => result' = result]_vars

C23_Witness ==
    /\ command = "create" /\ Finished /\ result = "Ok"
    /\ MAX_SPAWNS = 9
    /\ Len(spawned) = MAX_SPAWNS
    /\ Cardinality(Invocations(PROBE_ARGS)) = 6

====
